---- MODULE Spec2Model ----
(***************************************************************************)
(* SafePtr<T,Deleter> / SafeWeakPtr<T,Deleter> (include/safeptr.hpp).      *)
(*                                                                         *)
(* The model follows the header at the granularity of its atomic           *)
(* operations: every fetch_add / fetch_sub / load / exchange /             *)
(* compare_exchange on a ControlBlock field and every mutex operation is   *)
(* one step of the thread that executes it; thread-local work (new,        *)
(* deleter calls on a pointer the thread owns exclusively, assignments to  *)
(* guard members) is folded into the atomic step that precedes it.         *)
(*                                                                         *)
(* Values of T live in a small heap of cells.  `new` may return any cell   *)
(* that is not allocated, so a freed cell can be handed out again; the     *)
(* content of a freed cell is indeterminate.                               *)
(***************************************************************************)
EXTENDS Integers, FiniteSets, TLC

\* ------------------------------------------------------------------ bounds
NThreads == 3
NWeak == 1
\* the weak handle objects that exist (NWeak of them take part in Spec)
MaxWeak == 2
MaxAddr == 3
MaxVal == 1
MaxBlocks == 2
\* the accumulation workload: NWriters writer threads, KIter iterations each
NWriters == 2
KIter == 2

Thr == 1..NThreads
WeakH == 1..NWeak
WeakAll == 1..MaxWeak
Addr == 1..MaxAddr
Val == 0..MaxVal
Blocks == 1..MaxBlocks

\* nullptr, for T* and for ControlBlock*
NULL == 0
\* the handle a thread's operation goes through: the owning SafePtr (OWN)
\* or one of the SafeWeakPtr objects (an element of WeakAll)
OWN == 0

VARIABLES
    \* the ControlBlock objects: cb[b] has the fields ptr, readers, retired,
    \* write_mtx (TRUE = locked), strong, weak
    cb,
    \* how many times `delete ctrl` ran on block b (0: the block is alive)
    cbDeletes,
    \* SafePtr::ctrl of the owning handle and SafeWeakPtr::ctrl of each weak handle
    sp_ctrl, wk_ctrl,
    \* SafePtr::ctrl of a second owning handle, the other side of a move
    sp2_ctrl,
    \* the argument p of the reset(p) that is running on the owning handle
    \* (nullptr when none is, and for reset())
    reset_p,
    \* the heap of T objects: alloc[a] (cell a is allocated) and mem[a] (its content)
    alloc, mem,
    \* per thread: position in the call it executes and the handle the call is made on
    pc, hnd,
    \* per thread: the ReadGuard it holds (ctrl, snapshot), the WriteGuard it
    \* holds (ctrl, lock = owns the mutex, old_ptr, local) and the local
    \* variable old_global of commit_and_cleanup
    rguard, wguard, old_global,
    \* per thread: number of write iterations started in the accumulation workload
    iter,
    \* what the step just taken returned to its caller: when the step
    \* completed a call of thread t, res[t] is "ReadGuard" or "WriteGuard" (the
    \* guard returned), "<call>:none" (an empty optional) or "<call>:error"
    \* (std::logic_error); it is "-" otherwise
    res,
    \* history, per thread: the code path that destroyed the object the
    \* thread's live ReadGuard holds ("no" if it was not destroyed)
    stale,
    \* history: a deleter ran on a cell that was not allocated; a freed
    \* ControlBlock was accessed; release_strong took strong to 0 on block b;
    \* the content of the value published last on block b
    doubleFree, cbUAF, torn, lastPub

cbVars == <<cb, cbDeletes>>
hVars == <<sp_ctrl, wk_ctrl, sp2_ctrl, reset_p>>
heapVars == <<alloc, mem>>
guardVars == <<rguard, wguard, old_global>>
thrVars == <<pc, hnd, iter>>
histVars == <<stale, doubleFree, cbUAF, torn, lastPub>>
vars == <<cbVars, hVars, heapVars, guardVars, thrVars, res, histVars>>

\* ----------------------------------------------------------------- helpers
NoReadGuard == [ctrl |-> NULL, snapshot |-> NULL]
NoWriteGuard == [ctrl |-> NULL, lock |-> FALSE, old_ptr |-> NULL, local |-> NULL]

\* ControlBlock(T* p): ptr = p, readers 0, retired null, mutex free, strong 1, weak 0
NewControlBlock(p) ==
    [ptr |-> p, readers |-> 0, retired |-> NULL, write_mtx |-> FALSE,
     strong |-> 1, weak |-> 0]

\* a ControlBlock that has not been constructed yet
NoControlBlock == [NewControlBlock(NULL) EXCEPT !.strong = 0]

\* the block has been deleted
Freed(b) == cbDeletes[b] > 0

\* what *p can yield: the content of an allocated cell; anything for a
\* dangling or null pointer
DerefSet(p) == IF p # NULL /\ alloc[p] THEN {mem[p]} ELSE Val

\* a ReadGuard is alive (acquired and its release not begun)
Reading(t) == pc[t] = "reading"
\* a WriteGuard is alive
Writing(t) == pc[t] = "writing"

\* the thread in whose scope a handle object lives: it alone constructs and
\* destroys the handle. Every thread may call the operations of the owning
\* handle; a weak handle is the observer of its own thread.
HomeOf(h) == IF h = OWN THEN 1 ELSE 2 + ((h - 1) % (NThreads - 1))

\* some thread is inside a call on handle h or holds a guard obtained from it
InOp(h) == \E t \in Thr : pc[t] # "idle" /\ hnd[t] = h
\* handle h is being destroyed or reset (release_strong / release_weak /
\* reset in progress)
Releasing(h) ==
    \E t \in Thr : hnd[t] = h /\ pc[t] \in {"rs_xchg", "rs_weak", "rw_strong", "rst_new"}

\* deleter(p) for every p in S, on behalf of code path `cause`
Deleter(S, cause) ==
    /\ alloc' = [a \in Addr |-> IF a \in S THEN FALSE ELSE alloc[a]]
    /\ mem' = [a \in Addr |-> IF a \in S THEN 0 ELSE mem[a]]
    /\ doubleFree' = (doubleFree \/ \E a \in S : ~alloc[a])
    /\ stale' = [t \in Thr |->
                   IF Reading(t) /\ rguard[t].snapshot \in S /\ stale[t] = "no"
                   THEN cause ELSE stale[t]]

\* the step completes a call of thread t with outcome r / completes no call
Returns(t, r) == res' = [x \in Thr |-> IF x = t THEN r ELSE "-"]
NoReturn == res' = [x \in Thr |-> "-"]

NoDelete == UNCHANGED <<alloc, mem, doubleFree, stale>>

\* ------------------------------------------------------------------- Init
\* SafePtr sp(new T(0)); the weak handles are default-constructed (empty)
Init ==
    /\ cb = [b \in Blocks |-> IF b = 1 THEN NewControlBlock(1) ELSE NoControlBlock]
    /\ cbDeletes = [b \in Blocks |-> 0]
    /\ sp_ctrl = 1
    /\ sp2_ctrl = NULL
    /\ reset_p = NULL
    /\ wk_ctrl = [w \in WeakAll |-> NULL]
    /\ alloc = [a \in Addr |-> a = 1]
    /\ mem = [a \in Addr |-> 0]
    /\ pc = [t \in Thr |-> "idle"]
    /\ hnd = [t \in Thr |-> OWN]
    /\ rguard = [t \in Thr |-> NoReadGuard]
    /\ wguard = [t \in Thr |-> NoWriteGuard]
    /\ old_global = [t \in Thr |-> NULL]
    /\ res = [t \in Thr |-> "-"]
    /\ iter = [t \in Thr |-> 0]
    /\ stale = [t \in Thr |-> "no"]
    /\ doubleFree = FALSE
    /\ cbUAF = FALSE
    /\ torn = [b \in Blocks |-> FALSE]
    /\ lastPub = [b \in Blocks |-> 0]

\* ------------------------------------------------------------- read path
\* mutant of Read: on a null ControlBlock the call reports absence instead
\* of throwing
Read_NoThrow(t) ==
    /\ pc[t] = "idle" /\ ~Releasing(OWN)
    /\ IF sp_ctrl = NULL
       THEN /\ Returns(t, "read:none")
            /\ UNCHANGED <<pc, hnd, rguard>>
       ELSE /\ NoReturn
            /\ pc' = [pc EXCEPT ![t] = "rg_inc"]
            /\ hnd' = [hnd EXCEPT ![t] = OWN]
            /\ rguard' = [rguard EXCEPT ![t] = [ctrl |-> sp_ctrl, snapshot |-> NULL]]
    /\ UNCHANGED <<cbVars, hVars, heapVars, wguard, old_global, iter, histVars>>

\* SafePtr::read(): logic_error on a null ControlBlock, else ReadGuard(ctrl)
Read(t) ==
    /\ pc[t] = "idle" /\ ~Releasing(OWN)
    /\ IF sp_ctrl = NULL
       THEN /\ Returns(t, "read:error")
            /\ UNCHANGED <<pc, hnd, rguard>>
       ELSE /\ NoReturn
            /\ pc' = [pc EXCEPT ![t] = "rg_inc"]
            /\ hnd' = [hnd EXCEPT ![t] = OWN]
            /\ rguard' = [rguard EXCEPT ![t] = [ctrl |-> sp_ctrl, snapshot |-> NULL]]
    /\ UNCHANGED <<cbVars, hVars, heapVars, wguard, old_global, iter, histVars>>

\* SafePtr::try_read(): nullopt on a null ControlBlock, else ReadGuard(ctrl, nothrow)
TryRead(t) ==
    /\ pc[t] = "idle" /\ ~Releasing(OWN)
    /\ IF sp_ctrl = NULL
       THEN /\ Returns(t, "try_read:none")
            /\ UNCHANGED <<pc, hnd, rguard>>
       ELSE /\ NoReturn
            /\ pc' = [pc EXCEPT ![t] = "rg_inc"]
            /\ hnd' = [hnd EXCEPT ![t] = OWN]
            /\ rguard' = [rguard EXCEPT ![t] = [ctrl |-> sp_ctrl, snapshot |-> NULL]]
    /\ UNCHANGED <<cbVars, hVars, heapVars, wguard, old_global, iter, histVars>>

\* SafeWeakPtr::try_read(): nullopt on a null ControlBlock or when the load
\* of ptr yields null, else ReadGuard(ctrl, nothrow)
WeakTryRead(t, w) ==
    /\ t = HomeOf(w)
    /\ pc[t] = "idle" /\ ~Releasing(w)
    /\ IF wk_ctrl[w] = NULL \/ cb[wk_ctrl[w]].ptr = NULL
       THEN /\ Returns(t, "weak_try_read:none")
            /\ UNCHANGED <<pc, hnd, rguard>>
       ELSE /\ NoReturn
            /\ pc' = [pc EXCEPT ![t] = "rg_inc"]
            /\ hnd' = [hnd EXCEPT ![t] = w]
            /\ rguard' = [rguard EXCEPT ![t] = [ctrl |-> wk_ctrl[w], snapshot |-> NULL]]
    /\ UNCHANGED <<cbVars, hVars, heapVars, wguard, old_global, iter, histVars>>

\* mutant of RgInc: the reader waits while a writer holds the mutex
RgInc_WaitsForWriter(t) ==
    /\ pc[t] = "rg_inc"
    /\ ~cb[rguard[t].ctrl].write_mtx
    /\ cb' = [cb EXCEPT ![rguard[t].ctrl].readers = @ + 1]
    /\ pc' = [pc EXCEPT ![t] = "rg_load"]
    /\ NoReturn
    /\ UNCHANGED <<cbDeletes, hVars, heapVars, guardVars, hnd, iter, histVars>>

\* mutant of RgInc: the reader does not count itself before it loads current
RgInc_Uncounted(t) ==
    /\ pc[t] = "rg_inc"
    /\ pc' = [pc EXCEPT ![t] = "rg_load"]
    /\ NoReturn
    /\ UNCHANGED <<cbVars, hVars, heapVars, guardVars, hnd, iter, histVars>>

\* ReadGuard constructor, first atomic step: readers.fetch_add(1)
RgInc(t) ==
    /\ pc[t] = "rg_inc"
    /\ cb' = [cb EXCEPT ![rguard[t].ctrl].readers = @ + 1]
    /\ pc' = [pc EXCEPT ![t] = "rg_load"]
    /\ NoReturn
    /\ UNCHANGED <<cbDeletes, hVars, heapVars, guardVars, hnd, iter, histVars>>

\* ReadGuard constructor, second atomic step: snapshot = ptr.load()
RgLoad(t) ==
    LET p == cb[rguard[t].ctrl].ptr IN
    /\ pc[t] = "rg_load"
    /\ rguard' = [rguard EXCEPT ![t].snapshot = p]
    /\ pc' = [pc EXCEPT ![t] = "reading"]
    /\ Returns(t, "ReadGuard")
    /\ UNCHANGED <<cbVars, hVars, heapVars, wguard, old_global, hnd, iter,
                   stale, doubleFree, cbUAF, torn, lastPub>>

\* ReadGuard::release(), first atomic step: prev = readers.fetch_sub(1);
\* when prev # 1 the guard's members are cleared and the release is over
Release(t) ==
    LET c == rguard[t].ctrl
        prev == cb[c].readers IN
    /\ pc[t] = "reading"
    /\ cb' = [cb EXCEPT ![c].readers = @ - 1]
    /\ IF prev = 1
       THEN /\ pc' = [pc EXCEPT ![t] = "rg_swap"]
            /\ UNCHANGED rguard
       ELSE /\ pc' = [pc EXCEPT ![t] = "idle"]
            /\ rguard' = [rguard EXCEPT ![t] = NoReadGuard]
    /\ stale' = [stale EXCEPT ![t] = "no"]
    /\ NoReturn
    /\ UNCHANGED <<cbDeletes, hVars, heapVars, wguard, old_global, hnd, iter,
                   doubleFree, cbUAF, torn, lastPub>>

\* ReadGuard::release(), second atomic step (last reader):
\* r = retired.exchange(nullptr); if (r) deleter(r)
RgSwap(t) ==
    LET c == rguard[t].ctrl
        r == cb[c].retired IN
    /\ pc[t] = "rg_swap"
    /\ cb' = [cb EXCEPT ![c].retired = NULL]
    /\ IF r # NULL THEN Deleter({r}, "reader") ELSE NoDelete
    /\ rguard' = [rguard EXCEPT ![t] = NoReadGuard]
    /\ pc' = [pc EXCEPT ![t] = "idle"]
    /\ NoReturn
    /\ UNCHANGED <<cbDeletes, hVars, wguard, old_global, hnd, iter,
                   cbUAF, torn, lastPub>>

\* ------------------------------------------------------------ write path
\* SafePtr::write(): logic_error on a null ControlBlock, else WriteGuard(ctrl)
Write(t) ==
    /\ pc[t] = "idle" /\ ~Releasing(OWN)
    /\ IF sp_ctrl = NULL
       THEN /\ Returns(t, "write:error")
            /\ UNCHANGED <<pc, hnd, wguard>>
       ELSE /\ NoReturn
            /\ pc' = [pc EXCEPT ![t] = "wg_lock"]
            /\ hnd' = [hnd EXCEPT ![t] = OWN]
            /\ wguard' = [wguard EXCEPT ![t] = [NoWriteGuard EXCEPT !.ctrl = sp_ctrl]]
    /\ UNCHANGED <<cbVars, hVars, heapVars, rguard, old_global, iter, histVars>>

\* SafePtr::try_write(): nullopt on a null ControlBlock, else try to lock
TryWrite(t) ==
    /\ pc[t] = "idle" /\ ~Releasing(OWN)
    /\ IF sp_ctrl = NULL
       THEN /\ Returns(t, "try_write:none")
            /\ UNCHANGED <<pc, hnd, wguard>>
       ELSE /\ NoReturn
            /\ pc' = [pc EXCEPT ![t] = "wg_trylock"]
            /\ hnd' = [hnd EXCEPT ![t] = OWN]
            /\ wguard' = [wguard EXCEPT ![t] = [NoWriteGuard EXCEPT !.ctrl = sp_ctrl]]
    /\ UNCHANGED <<cbVars, hVars, heapVars, rguard, old_global, iter, histVars>>

\* SafeWeakPtr::try_write(): nullopt on a null ControlBlock or when the
\* load of ptr yields null, else try to lock
WeakTryWrite(t, w) ==
    /\ t = HomeOf(w)
    /\ pc[t] = "idle" /\ ~Releasing(w)
    /\ IF wk_ctrl[w] = NULL \/ cb[wk_ctrl[w]].ptr = NULL
       THEN /\ Returns(t, "weak_try_write:none")
            /\ UNCHANGED <<pc, hnd, wguard>>
       ELSE /\ NoReturn
            /\ pc' = [pc EXCEPT ![t] = "wg_trylock"]
            /\ hnd' = [hnd EXCEPT ![t] = w]
            /\ wguard' = [wguard EXCEPT ![t] = [NoWriteGuard EXCEPT !.ctrl = wk_ctrl[w]]]
    /\ UNCHANGED <<cbVars, hVars, heapVars, rguard, old_global, iter, histVars>>

\* mutant of CanLock: the mutex never excludes anyone
CanLock_Always(c) == TRUE

\* std::mutex: the lock can be taken when no one holds it
CanLock(c) == ~cb[c].write_mtx

\* WriteGuard(ControlBlock*): lock(c->write_mtx) waits until the mutex is free
WgLock(t) ==
    LET c == wguard[t].ctrl IN
    /\ pc[t] = "wg_lock"
    /\ CanLock(c)
    /\ cb' = [cb EXCEPT ![c].write_mtx = TRUE]
    /\ wguard' = [wguard EXCEPT ![t].lock = TRUE]
    /\ pc' = [pc EXCEPT ![t] = "wg_old"]
    /\ NoReturn
    /\ UNCHANGED <<cbDeletes, hVars, heapVars, rguard, old_global, hnd, iter, histVars>>

\* mutant of WgTryLock: the owns_lock() check is missing, so a WriteGuard
\* is built around a unique_lock that may not own the mutex
WgTryLock_NoCheck(t) ==
    LET c == wguard[t].ctrl IN
    /\ pc[t] = "wg_trylock"
    /\ IF CanLock(c)
       THEN /\ cb' = [cb EXCEPT ![c].write_mtx = TRUE]
            /\ wguard' = [wguard EXCEPT ![t].lock = TRUE]
       ELSE UNCHANGED <<cb, wguard>>
    /\ pc' = [pc EXCEPT ![t] = "wg_old"]
    /\ NoReturn
    /\ UNCHANGED <<cbDeletes, hVars, heapVars, rguard, old_global, hnd, iter, histVars>>

\* mutant of WgTryLock: the attempt waits for the mutex instead of giving up
WgTryLock_Waits(t) ==
    LET c == wguard[t].ctrl IN
    /\ pc[t] = "wg_trylock"
    /\ CanLock(c)
    /\ cb' = [cb EXCEPT ![c].write_mtx = TRUE]
    /\ wguard' = [wguard EXCEPT ![t].lock = TRUE]
    /\ pc' = [pc EXCEPT ![t] = "wg_old"]
    /\ NoReturn
    /\ UNCHANGED <<cbDeletes, hVars, heapVars, rguard, old_global, hnd, iter, histVars>>

\* std::unique_lock lk(write_mtx, std::try_to_lock); nullopt unless lk.owns_lock()
WgTryLock(t) ==
    LET c == wguard[t].ctrl IN
    /\ pc[t] = "wg_trylock"
    /\ IF CanLock(c)
       THEN /\ cb' = [cb EXCEPT ![c].write_mtx = TRUE]
            /\ wguard' = [wguard EXCEPT ![t].lock = TRUE]
            /\ pc' = [pc EXCEPT ![t] = "wg_old"]
            /\ NoReturn
       ELSE /\ wguard' = [wguard EXCEPT ![t] = NoWriteGuard]
            /\ pc' = [pc EXCEPT ![t] = "idle"]
            /\ Returns(t, IF hnd[t] = OWN THEN "try_write:none" ELSE "weak_try_write:none")
            /\ UNCHANGED cb
    /\ UNCHANGED <<cbDeletes, hVars, heapVars, rguard, old_global, hnd, iter, histVars>>

\* WriteGuard constructors' body: old_ptr = ptr.load()
WgOld(t) ==
    /\ pc[t] = "wg_old"
    /\ wguard' = [wguard EXCEPT ![t].old_ptr = cb[wguard[t].ctrl].ptr]
    /\ pc' = [pc EXCEPT ![t] = "writing"]
    /\ Returns(t, "WriteGuard")
    /\ UNCHANGED <<cbVars, hVars, heapVars, rguard, old_global, hnd, iter, histVars>>

\* mutant of SetValue: a second call on the same guard is ignored
SetValue_KeepFirst(t, v) ==
    /\ pc[t] = "writing"
    /\ IF wguard[t].local = NULL
       THEN \E a \in Addr :
              /\ ~alloc[a]
              /\ alloc' = [alloc EXCEPT ![a] = TRUE]
              /\ mem' = [mem EXCEPT ![a] = v]
              /\ wguard' = [wguard EXCEPT ![t].local = a]
       ELSE UNCHANGED <<alloc, mem, wguard>>
    /\ NoReturn
    /\ UNCHANGED <<cbVars, hVars, rguard, old_global, thrVars, histVars>>

\* WriteGuard::set_value(v): local = new T(v) the first time, *local = v afterwards
SetValue(t, v) ==
    /\ pc[t] = "writing"
    /\ IF wguard[t].local = NULL
       THEN \E a \in Addr :
              /\ ~alloc[a]
              /\ alloc' = [alloc EXCEPT ![a] = TRUE]
              /\ mem' = [mem EXCEPT ![a] = v]
              /\ wguard' = [wguard EXCEPT ![t].local = a]
       ELSE /\ mem' = [mem EXCEPT ![wguard[t].local] = v]
            /\ UNCHANGED <<alloc, wguard>>
    /\ NoReturn
    /\ UNCHANGED <<cbVars, hVars, rguard, old_global, thrVars, histVars>>

\* mutant of WgCommit: the test for a staged value is missing, so a guard
\* without one publishes its null local
WgCommit_NoStagedTest(t) ==
    LET c == wguard[t].ctrl
        new_ptr == wguard[t].local IN
    /\ pc[t] = "writing"
    /\ cb' = [cb EXCEPT ![c].ptr = new_ptr]
    /\ old_global' = [old_global EXCEPT ![t] = cb[c].ptr]
    /\ wguard' = [wguard EXCEPT ![t].local = NULL]
    /\ lastPub' = [lastPub EXCEPT ![c] = IF new_ptr = NULL THEN @ ELSE mem[new_ptr]]
    /\ pc' = [pc EXCEPT ![t] = IF cb[c].ptr = NULL THEN "wg_unlock" ELSE "wg_readers"]
    /\ NoReturn
    /\ UNCHANGED <<cbDeletes, hVars, heapVars, rguard, hnd, iter,
                   stale, doubleFree, cbUAF, torn>>

\* ~WriteGuard -> commit_and_cleanup(), up to its first atomic step: nothing
\* staged: nothing to commit; else old_global = ptr.exchange(new_ptr)
WgCommit(t) ==
    LET c == wguard[t].ctrl
        new_ptr == wguard[t].local IN
    /\ pc[t] = "writing"
    /\ IF new_ptr = NULL
       THEN /\ pc' = [pc EXCEPT ![t] = "wg_unlock"]
            /\ UNCHANGED <<cb, wguard, old_global, lastPub>>
       ELSE /\ cb' = [cb EXCEPT ![c].ptr = new_ptr]
            /\ old_global' = [old_global EXCEPT ![t] = cb[c].ptr]
            /\ wguard' = [wguard EXCEPT ![t].local = NULL]
            /\ lastPub' = [lastPub EXCEPT ![c] = mem[new_ptr]]
            /\ pc' = [pc EXCEPT ![t] = IF cb[c].ptr = NULL THEN "wg_unlock" ELSE "wg_readers"]
    /\ NoReturn
    /\ UNCHANGED <<cbDeletes, hVars, heapVars, rguard, hnd, iter,
                   stale, doubleFree, cbUAF, torn>>

\* mutant of WgReaders: with no reader counted, the deleter runs on the
\* value just published instead of the value it replaced
WgReaders_DeleteCurrent(t) ==
    LET c == wguard[t].ctrl IN
    /\ pc[t] = "wg_readers"
    /\ IF cb[c].readers = 0
       THEN /\ Deleter({cb[c].ptr}, "immediate")
            /\ old_global' = [old_global EXCEPT ![t] = NULL]
            /\ pc' = [pc EXCEPT ![t] = "wg_unlock"]
       ELSE /\ NoDelete
            /\ pc' = [pc EXCEPT ![t] = "wg_cas"]
            /\ UNCHANGED old_global
    /\ NoReturn
    /\ UNCHANGED <<cbVars, hVars, rguard, wguard, hnd, iter,
                   cbUAF, torn, lastPub>>

\* mutant of WgReaders: reader_count is not consulted, the replaced value
\* is always sent to the retired slot
WgReaders_AlwaysRetire(t) ==
    /\ pc[t] = "wg_readers"
    /\ NoDelete
    /\ pc' = [pc EXCEPT ![t] = "wg_cas"]
    /\ NoReturn
    /\ UNCHANGED <<cbVars, hVars, rguard, wguard, old_global, hnd, iter,
                   cbUAF, torn, lastPub>>

\* mutant of WgReaders: reader_count is not consulted, the replaced value
\* is always destroyed at once
WgReaders_IgnoresReaders(t) ==
    /\ pc[t] = "wg_readers"
    /\ Deleter({old_global[t]}, "immediate")
    /\ old_global' = [old_global EXCEPT ![t] = NULL]
    /\ pc' = [pc EXCEPT ![t] = "wg_unlock"]
    /\ NoReturn
    /\ UNCHANGED <<cbVars, hVars, rguard, wguard, hnd, iter,
                   cbUAF, torn, lastPub>>

\* commit_and_cleanup(): r = readers.load(); if (r == 0) deleter(old_global)
WgReaders(t) ==
    LET c == wguard[t].ctrl IN
    /\ pc[t] = "wg_readers"
    /\ IF cb[c].readers = 0
       THEN /\ Deleter({old_global[t]}, "immediate")
            /\ old_global' = [old_global EXCEPT ![t] = NULL]
            /\ pc' = [pc EXCEPT ![t] = "wg_unlock"]
       ELSE /\ NoDelete
            /\ pc' = [pc EXCEPT ![t] = "wg_cas"]
            /\ UNCHANGED old_global
    /\ NoReturn
    /\ UNCHANGED <<cbVars, hVars, rguard, wguard, hnd, iter,
                   cbUAF, torn, lastPub>>

\* mutant of WgCas: an occupied retired slot is overwritten and its earlier
\* occupant destroyed
WgCas_Overwrite(t) ==
    LET c == wguard[t].ctrl IN
    /\ pc[t] = "wg_cas"
    /\ cb' = [cb EXCEPT ![c].retired = old_global[t]]
    /\ IF cb[c].retired = NULL THEN NoDelete ELSE Deleter({cb[c].retired}, "fallback")
    /\ old_global' = [old_global EXCEPT ![t] = NULL]
    /\ pc' = [pc EXCEPT ![t] = "wg_unlock"]
    /\ NoReturn
    /\ UNCHANGED <<cbDeletes, hVars, rguard, wguard, hnd, iter,
                   cbUAF, torn, lastPub>>

\* commit_and_cleanup(): retired.compare_exchange_strong(nullptr, old_global),
\* and deleter(old_global) when the slot is taken
WgCas(t) ==
    LET c == wguard[t].ctrl IN
    /\ pc[t] = "wg_cas"
    /\ IF cb[c].retired = NULL
       THEN /\ cb' = [cb EXCEPT ![c].retired = old_global[t]]
            /\ NoDelete
       ELSE /\ Deleter({old_global[t]}, "fallback")
            /\ UNCHANGED cb
    /\ old_global' = [old_global EXCEPT ![t] = NULL]
    /\ pc' = [pc EXCEPT ![t] = "wg_unlock"]
    /\ NoReturn
    /\ UNCHANGED <<cbDeletes, hVars, rguard, wguard, hnd, iter,
                   cbUAF, torn, lastPub>>

\* ~WriteGuard, after the destructor body: the unique_lock member unlocks
\* the mutex if it owns it
WgUnlock(t) ==
    LET c == wguard[t].ctrl IN
    /\ pc[t] = "wg_unlock"
    /\ cb' = [cb EXCEPT ![c].write_mtx = IF wguard[t].lock THEN FALSE ELSE @]
    /\ wguard' = [wguard EXCEPT ![t] = NoWriteGuard]
    /\ pc' = [pc EXCEPT ![t] = "idle"]
    /\ NoReturn
    /\ UNCHANGED <<cbDeletes, hVars, heapVars, rguard, old_global, hnd, iter, histVars>>

\* -------------------------------------------------------------- teardown
\* what a load of a ControlBlock field yields: its value x while the block
\* is alive, any value of D once the block has been deleted
FieldRead(c, x, D) == IF Freed(c) THEN D ELSE {x}

\* delete ctrl -> ~ControlBlock(): deleter(cur) if cur; deleter(r) if r && r != cur.
\* On a block that was deleted before, the loads of ptr and retired read
\* freed memory and either deleter call may or may not happen.
DeleteCtrl(c) ==
    /\ cbDeletes' = [cbDeletes EXCEPT ![c] = @ + 1]
    /\ \E S \in SUBSET ({cb[c].ptr, cb[c].retired} \ {NULL}) :
          /\ ~Freed(c) => S = {cb[c].ptr, cb[c].retired} \ {NULL}
          /\ Deleter(S, "teardown")

\* SafePtr::release_strong() (~SafePtr, reset()), first atomic step:
\* strong.fetch_sub(1). The caller's contract: no guard obtained from this
\* handle is alive and no other call on the handle is running.
ReleaseStrong(t) ==
    LET c == sp_ctrl
        prev == cb[c].strong IN
    /\ t = HomeOf(OWN)
    /\ pc[t] = "idle" /\ sp_ctrl # NULL /\ ~InOp(OWN)
    /\ cb' = [cb EXCEPT ![c].strong = @ - 1]
    /\ hnd' = [hnd EXCEPT ![t] = OWN]
    /\ IF prev = 1
       THEN /\ pc' = [pc EXCEPT ![t] = "rs_xchg"]
            /\ torn' = [torn EXCEPT ![c] = TRUE]
            /\ UNCHANGED sp_ctrl
       ELSE /\ sp_ctrl' = NULL
            /\ UNCHANGED <<pc, torn>>
    /\ NoReturn
    /\ UNCHANGED <<cbDeletes, wk_ctrl, sp2_ctrl, reset_p, heapVars, guardVars, iter,
                   stale, doubleFree, cbUAF, lastPub>>

\* release_strong(): obj = ptr.exchange(nullptr); if (obj) deleter(obj)
RsXchg(t) ==
    LET c == sp_ctrl IN
    /\ pc[t] = "rs_xchg"
    /\ cb' = [cb EXCEPT ![c].ptr = NULL]
    /\ cbUAF' = (cbUAF \/ Freed(c))
    /\ \E obj \in FieldRead(c, cb[c].ptr, {NULL, cb[c].ptr}) :
          IF obj # NULL THEN Deleter({obj}, "teardown") ELSE NoDelete
    /\ pc' = [pc EXCEPT ![t] = "rs_weak"]
    /\ NoReturn
    /\ UNCHANGED <<cbDeletes, hVars, guardVars, hnd, iter, torn, lastPub>>

\* release_strong(): if (weak.load() == 0) delete ctrl; then ctrl = nullptr;
\* the call returns to the destructor, or to reset(p), which goes on
RsWeak(t) ==
    LET c == sp_ctrl IN
    /\ pc[t] = "rs_weak"
    /\ cbUAF' = (cbUAF \/ Freed(c))
    /\ \E wv \in FieldRead(c, cb[c].weak, {0, 1}) :
          IF wv = 0 THEN DeleteCtrl(c) ELSE NoDelete /\ UNCHANGED cbDeletes
    /\ sp_ctrl' = NULL
    /\ pc' = [pc EXCEPT ![t] = IF reset_p # NULL THEN "rst_new" ELSE "idle"]
    /\ NoReturn
    /\ UNCHANGED <<cb, wk_ctrl, sp2_ctrl, reset_p, guardVars, hnd, iter, torn, lastPub>>

\* ------------------------------------------------------------ weak handle
\* SafeWeakPtr(const Strong& sp): ctrl = sp.ctrl; if (ctrl) weak.fetch_add(1)
WeakCtor(t, w) ==
    /\ t = HomeOf(w)
    /\ pc[t] = "idle" /\ wk_ctrl[w] = NULL /\ ~InOp(w)
    /\ sp_ctrl # NULL /\ ~Releasing(OWN)
    /\ wk_ctrl' = [wk_ctrl EXCEPT ![w] = sp_ctrl]
    /\ cb' = [cb EXCEPT ![sp_ctrl].weak = @ + 1]
    /\ NoReturn
    /\ UNCHANGED <<cbDeletes, sp_ctrl, sp2_ctrl, reset_p, heapVars, guardVars, thrVars, histVars>>

\* SafeWeakPtr::release_weak() (~SafeWeakPtr), first atomic step:
\* weak.fetch_sub(1). The caller's contract: no guard obtained from this
\* handle is alive and no other call on the handle is running.
ReleaseWeak(t, w) ==
    LET c == wk_ctrl[w]
        prev == cb[c].weak IN
    /\ t = HomeOf(w)
    /\ pc[t] = "idle" /\ wk_ctrl[w] # NULL /\ ~InOp(w)
    /\ cb' = [cb EXCEPT ![c].weak = @ - 1]
    /\ hnd' = [hnd EXCEPT ![t] = w]
    /\ IF prev = 1
       THEN /\ pc' = [pc EXCEPT ![t] = "rw_strong"]
            /\ UNCHANGED wk_ctrl
       ELSE /\ wk_ctrl' = [wk_ctrl EXCEPT ![w] = NULL]
            /\ UNCHANGED pc
    /\ NoReturn
    /\ UNCHANGED <<cbDeletes, sp_ctrl, sp2_ctrl, reset_p, heapVars, guardVars, iter, histVars>>

\* release_weak(): if (strong.load() == 0) delete ctrl; then ctrl = nullptr
RwStrong(t) ==
    LET w == hnd[t]
        c == wk_ctrl[w] IN
    /\ pc[t] = "rw_strong"
    /\ cbUAF' = (cbUAF \/ Freed(c))
    /\ \E sv \in FieldRead(c, cb[c].strong, {0, 1}) :
          IF sv = 0 THEN DeleteCtrl(c) ELSE NoDelete /\ UNCHANGED cbDeletes
    /\ wk_ctrl' = [wk_ctrl EXCEPT ![w] = NULL]
    /\ pc' = [pc EXCEPT ![t] = "idle"]
    /\ NoReturn
    /\ UNCHANGED <<cb, sp_ctrl, sp2_ctrl, reset_p, guardVars, hnd, iter, torn, lastPub>>

\* SafeWeakPtr(const SafeWeakPtr& o), and operator=(const SafeWeakPtr& o)
\* after its call of release_weak() has returned (the steps ReleaseWeak,
\* RwStrong): ctrl = o.ctrl; if (ctrl) weak.fetch_add(1)
WeakCopy(t, w, o) ==
    /\ t = HomeOf(w) /\ o # w
    /\ pc[t] = "idle" /\ wk_ctrl[w] = NULL /\ ~InOp(w)
    /\ wk_ctrl[o] # NULL /\ ~Releasing(o)
    /\ wk_ctrl' = [wk_ctrl EXCEPT ![w] = wk_ctrl[o]]
    /\ cb' = [cb EXCEPT ![wk_ctrl[o]].weak = @ + 1]
    /\ cbUAF' = (cbUAF \/ Freed(wk_ctrl[o]))
    /\ Returns(t, "weak_copy")
    /\ UNCHANGED <<cbDeletes, sp_ctrl, sp2_ctrl, reset_p, heapVars, guardVars, thrVars,
                   stale, doubleFree, torn, lastPub>>

\* SafeWeakPtr(SafeWeakPtr&& o), and operator=(SafeWeakPtr&& o) after its
\* call of release_weak() has returned: ctrl = std::exchange(o.ctrl, nullptr)
WeakMove(t, w, o) ==
    /\ t = HomeOf(w) /\ o # w
    /\ pc[t] = "idle" /\ wk_ctrl[w] = NULL /\ ~InOp(w)
    /\ wk_ctrl[o] # NULL /\ ~InOp(o)
    /\ wk_ctrl' = [wk_ctrl EXCEPT ![w] = wk_ctrl[o], ![o] = NULL]
    /\ Returns(t, "weak_move")
    /\ UNCHANGED <<cbVars, sp_ctrl, sp2_ctrl, reset_p, heapVars, guardVars, thrVars, histVars>>

\* SafeWeakPtr::expired(): !ctrl || ptr.load() == nullptr
expired(w) == wk_ctrl[w] = NULL \/ cb[wk_ctrl[w]].ptr = NULL

\* SafePtr::valid(): ctrl && ptr.load() != nullptr
valid == sp_ctrl # NULL /\ cb[sp_ctrl].ptr # NULL

\* ------------------------------------------------------------------ Spec
\* the steps of the read path of thread t on the owning handle
ReadSteps(t) ==
    \/ Read(t)
    \/ TryRead(t)
    \/ RgInc(t)
    \/ RgLoad(t)
    \/ Release(t)
    \/ RgSwap(t)

\* the steps of the write path of thread t on the owning handle
WriteSteps(t) ==
    \/ Write(t)
    \/ TryWrite(t)
    \/ WgLock(t)
    \/ WgTryLock(t)
    \/ WgOld(t)
    \/ \E v \in Val : SetValue(t, v)
    \/ WgCommit(t)
    \/ WgReaders(t)
    \/ WgCas(t)
    \/ WgUnlock(t)

\* the calls on weak handles
WeakSteps(t) ==
    \/ RwStrong(t)
    \/ \E w \in WeakH :
         \/ WeakTryRead(t, w)
         \/ WeakTryWrite(t, w)
         \/ WeakCtor(t, w)
         \/ ReleaseWeak(t, w)

\* the destruction of the owning handle
StrongSteps(t) ==
    \/ ReleaseStrong(t)
    \/ RsXchg(t)
    \/ RsWeak(t)

\* any number of threads calling the public operations in any order
Next == \E t \in Thr : ReadSteps(t) \/ WriteSteps(t) \/ WeakSteps(t) \/ StrongSteps(t)

Spec == Init /\ [][Next]_vars

\* the same, while the owning handle stays alive
NextAlive == \E t \in Thr : ReadSteps(t) \/ WriteSteps(t) \/ WeakSteps(t)

SpecAlive == Init /\ [][NextAlive]_vars

\* ------------------------------------------------- moving the owning handle
\* mutant of MoveCtor: the source keeps its ControlBlock pointer
MoveCtor_KeepsSource(t) ==
    /\ t = HomeOf(OWN)
    /\ pc[t] = "idle" /\ ~InOp(OWN)
    /\ sp_ctrl # NULL /\ sp2_ctrl = NULL
    /\ sp2_ctrl' = sp_ctrl
    /\ Returns(t, "move_ctor")
    /\ UNCHANGED <<cbVars, sp_ctrl, wk_ctrl, reset_p, heapVars, guardVars, thrVars, histVars>>

\* SafePtr sp2(std::move(sp)): sp2.ctrl = std::exchange(sp.ctrl, nullptr)
MoveCtor(t) ==
    /\ t = HomeOf(OWN)
    /\ pc[t] = "idle" /\ ~InOp(OWN)
    /\ sp_ctrl # NULL /\ sp2_ctrl = NULL
    /\ sp2_ctrl' = sp_ctrl
    /\ sp_ctrl' = NULL
    /\ Returns(t, "move_ctor")
    /\ UNCHANGED <<cbVars, wk_ctrl, reset_p, heapVars, guardVars, thrVars, histVars>>

\* sp = std::move(sp2), after its call of release_strong() has returned
\* (the steps ReleaseStrong, RsXchg, RsWeak, or at once when sp was
\* empty): sp.ctrl = std::exchange(sp2.ctrl, nullptr)
MoveAssign(t) ==
    /\ t = HomeOf(OWN)
    /\ pc[t] = "idle" /\ ~InOp(OWN)
    /\ sp_ctrl = NULL /\ sp2_ctrl # NULL
    /\ sp_ctrl' = sp2_ctrl
    /\ sp2_ctrl' = NULL
    /\ Returns(t, "move_assign")
    /\ UNCHANGED <<cbVars, wk_ctrl, reset_p, heapVars, guardVars, thrVars, histVars>>

\* SafePtr sp(new T(0)), and either sp2 is not constructed yet or
\* SafePtr sp2(new T(1))
InitMove ==
    /\ sp2_ctrl \in {NULL, 2}
    /\ cb = [b \in Blocks |->
               IF b = 1 THEN NewControlBlock(1)
               ELSE IF b = sp2_ctrl THEN NewControlBlock(2) ELSE NoControlBlock]
    /\ cbDeletes = [b \in Blocks |-> 0]
    /\ sp_ctrl = 1
    /\ reset_p = NULL
    /\ wk_ctrl = [w \in WeakAll |-> NULL]
    /\ alloc = [a \in Addr |-> a = 1 \/ a = sp2_ctrl]
    /\ mem = [a \in Addr |-> IF a = sp2_ctrl THEN 1 ELSE 0]
    /\ pc = [t \in Thr |-> "idle"]
    /\ hnd = [t \in Thr |-> OWN]
    /\ rguard = [t \in Thr |-> NoReadGuard]
    /\ wguard = [t \in Thr |-> NoWriteGuard]
    /\ old_global = [t \in Thr |-> NULL]
    /\ res = [t \in Thr |-> "-"]
    /\ iter = [t \in Thr |-> 0]
    /\ stale = [t \in Thr |-> "no"]
    /\ doubleFree = FALSE
    /\ cbUAF = FALSE
    /\ torn = [b \in Blocks |-> FALSE]
    /\ lastPub = [b \in Blocks |-> IF b = sp2_ctrl THEN 1 ELSE 0]

\* the owning handle is moved from, moved into and destroyed while the
\* other threads read through it and through weak handles
NextMove ==
    \E t \in Thr :
        \/ MoveCtor(t)
        \/ MoveAssign(t)
        \/ StrongSteps(t)
        \/ ReadSteps(t)
        \/ WeakSteps(t)
        \/ WgTryLock(t)
        \/ WgOld(t)
        \/ WgCommit(t)
        \/ WgUnlock(t)

SpecMove == InitMove /\ [][NextMove]_vars

\* ------------------------------------------------ reset of the owning handle
\* block b has never been constructed
Unused(b) == cb[b] = NoControlBlock /\ ~torn[b] /\ ~Freed(b)

\* sp.reset(new T(v)): the argument is evaluated, then release_strong()
\* runs up to its first atomic step: return at once on a null ctrl, else
\* strong.fetch_sub(1). The caller's contract: no guard obtained from this
\* handle is alive and no other call on the handle is running.
Reset(t, v) ==
    LET c == sp_ctrl
        prev == cb[c].strong IN
    /\ t = HomeOf(OWN)
    /\ pc[t] = "idle" /\ ~InOp(OWN) /\ reset_p = NULL
    /\ \E b \in Blocks : Unused(b)
    /\ \E a \in Addr :
          /\ ~alloc[a]
          /\ alloc' = [alloc EXCEPT ![a] = TRUE]
          /\ mem' = [mem EXCEPT ![a] = v]
          /\ reset_p' = a
    /\ hnd' = [hnd EXCEPT ![t] = OWN]
    /\ IF c = NULL
       THEN /\ pc' = [pc EXCEPT ![t] = "rst_new"]
            /\ UNCHANGED <<cb, torn, sp_ctrl>>
       ELSE /\ cb' = [cb EXCEPT ![c].strong = @ - 1]
            /\ IF prev = 1
               THEN /\ pc' = [pc EXCEPT ![t] = "rs_xchg"]
                    /\ torn' = [torn EXCEPT ![c] = TRUE]
                    /\ UNCHANGED sp_ctrl
               ELSE /\ pc' = [pc EXCEPT ![t] = "rst_new"]
                    /\ sp_ctrl' = NULL
                    /\ UNCHANGED torn
    /\ NoReturn
    /\ UNCHANGED <<cbDeletes, wk_ctrl, sp2_ctrl, guardVars, iter,
                   stale, doubleFree, cbUAF, lastPub>>

\* reset(p) after release_strong(): if (p) ctrl = new ControlBlock(p)
ResetNew(t) ==
    /\ pc[t] = "rst_new"
    /\ \E b \in Blocks :
          /\ Unused(b)
          /\ cb' = [cb EXCEPT ![b] = NewControlBlock(reset_p)]
          /\ sp_ctrl' = b
          /\ lastPub' = [lastPub EXCEPT ![b] = mem[reset_p]]
    /\ reset_p' = NULL
    /\ pc' = [pc EXCEPT ![t] = "idle"]
    /\ Returns(t, "reset")
    /\ UNCHANGED <<cbDeletes, wk_ctrl, sp2_ctrl, heapVars, guardVars, hnd, iter,
                   stale, doubleFree, cbUAF, torn>>

\* the owning handle is reset, with and without a value, while the other
\* threads read through it and read and write through a weak handle
NextReset ==
    \E t \in Thr :
        \/ \E v \in Val : Reset(t, v)
        \/ ResetNew(t)
        \/ StrongSteps(t)
        \/ Read(t)
        \/ RgInc(t)
        \/ RgLoad(t)
        \/ Release(t)
        \/ RgSwap(t)
        \/ \E w \in WeakH :
             \/ WeakCtor(t, w)
             \/ WeakTryRead(t, w)
             \/ WeakTryWrite(t, w)
        \/ WgTryLock(t)
        \/ WgOld(t)
        \/ \E v \in Val : SetValue(t, v)
        \/ WgCommit(t)
        \/ WgReaders(t)
        \/ WgCas(t)
        \/ WgUnlock(t)

SpecReset == Init /\ [][NextReset]_vars

\* ------------------------------------------------ weak handle bookkeeping
\* MaxWeak weak handles are constructed from the owning handle, copied,
\* moved, assigned and destroyed while the owning handle is used and
\* destroyed
NextWeak ==
    \E t \in Thr :
        \/ StrongSteps(t)
        \/ ReadSteps(t)
        \/ RwStrong(t)
        \/ \E w \in WeakAll :
             \/ WeakCtor(t, w)
             \/ ReleaseWeak(t, w)
             \/ WeakTryRead(t, w)
             \/ \E o \in WeakAll : WeakCopy(t, w, o) \/ WeakMove(t, w, o)

SpecWeak == Init /\ [][NextWeak]_vars

\* ------------------------------------------------ one commit, many readers
\* sp.write() by the only writer of the execution: no write has begun before
OneWrite(t) ==
    /\ \A u \in Thr : iter[u] = 0
    /\ pc[t] = "idle" /\ sp_ctrl # NULL
    /\ iter' = [iter EXCEPT ![t] = 1]
    /\ pc' = [pc EXCEPT ![t] = "wg_lock"]
    /\ hnd' = [hnd EXCEPT ![t] = OWN]
    /\ wguard' = [wguard EXCEPT ![t] = [NoWriteGuard EXCEPT !.ctrl = sp_ctrl]]
    /\ NoReturn
    /\ UNCHANGED <<cbVars, hVars, heapVars, rguard, old_global, histVars>>

\* any number of reads and releases around the single WriteGuard
NextOneCommit ==
    \E t \in Thr :
        \/ OneWrite(t)
        \/ WgLock(t)
        \/ WgOld(t)
        \/ \E v \in Val : SetValue(t, v)
        \/ WgCommit(t)
        \/ WgReaders(t)
        \/ WgCas(t)
        \/ WgUnlock(t)
        \/ ReadSteps(t)

SpecOneCommit == Init /\ [][NextOneCommit]_vars

\* ------------------------------------------------------ moving a ReadGuard
\* mutant of RgMove: the source guard keeps its ControlBlock pointer
RgMove_KeepsSource(t, u) ==
    /\ t # u
    /\ pc[t] = "reading" /\ pc[u] = "idle" /\ rguard[u] = NoReadGuard
    /\ rguard' = [rguard EXCEPT ![u] = rguard[t]]
    /\ pc' = [pc EXCEPT ![u] = "reading"]
    /\ hnd' = [hnd EXCEPT ![u] = hnd[t]]
    /\ stale' = [stale EXCEPT ![u] = stale[t]]
    /\ Returns(u, "guard_move")
    /\ UNCHANGED <<cbVars, hVars, heapVars, wguard, old_global, iter,
                   doubleFree, cbUAF, torn, lastPub>>

\* ReadGuard(ReadGuard&& other), and operator=(ReadGuard&& other) after its
\* call of release() has returned (the steps Release, RgSwap): the guard
\* object of u takes ctrl and snapshot of the guard object of t, which is
\* left empty, so that its destructor's release() returns at once
RgMove(t, u) ==
    /\ t # u
    /\ pc[t] = "reading" /\ pc[u] = "idle" /\ rguard[u] = NoReadGuard
    /\ rguard' = [rguard EXCEPT ![u] = rguard[t], ![t] = NoReadGuard]
    /\ pc' = [pc EXCEPT ![u] = "reading", ![t] = "idle"]
    /\ hnd' = [hnd EXCEPT ![u] = hnd[t]]
    /\ stale' = [stale EXCEPT ![u] = stale[t], ![t] = "no"]
    /\ Returns(u, "guard_move")
    /\ UNCHANGED <<cbVars, hVars, heapVars, wguard, old_global, iter,
                   doubleFree, cbUAF, torn, lastPub>>

\* guards are acquired, moved from one guard object to another and
\* released while writers commit and the owning handle is destroyed
NextGuardMove ==
    \E t \in Thr :
        \/ \E u \in Thr : RgMove(t, u)
        \/ ReadSteps(t)
        \/ WriteSteps(t)
        \/ StrongSteps(t)

SpecGuardMove == Init /\ [][NextGuardMove]_vars

\* ------------------------------------------------ accumulation workload
\* threads 1..NWriters each run KIter times
\*     { auto w = sp.write(); int v = w.old(); w.set_value(v + 1); }
\* while the other threads read in a loop
Writers == 1..NWriters

\* loop head and sp.write(): the next iteration begins
AccWrite(t) ==
    /\ t \in Writers /\ iter[t] < KIter
    /\ pc[t] = "idle" /\ sp_ctrl # NULL
    /\ iter' = [iter EXCEPT ![t] = @ + 1]
    /\ pc' = [pc EXCEPT ![t] = "wg_lock"]
    /\ hnd' = [hnd EXCEPT ![t] = OWN]
    /\ wguard' = [wguard EXCEPT ![t] = [NoWriteGuard EXCEPT !.ctrl = sp_ctrl]]
    /\ NoReturn
    /\ UNCHANGED <<cbVars, hVars, heapVars, rguard, old_global, histVars>>

\* v = w.old(); w.set_value(v + 1), once per guard. old() throws when
\* old_ptr is null and reads *old_ptr otherwise.
AccSetValue(t) ==
    /\ t \in Writers
    /\ wguard[t].local = NULL /\ wguard[t].old_ptr # NULL
    /\ \E v \in DerefSet(wguard[t].old_ptr) : SetValue(t, v + 1)

\* end of the loop body: the guard, which has staged its value, is destroyed
AccCommit(t) ==
    /\ t \in Writers
    /\ wguard[t].local # NULL
    /\ WgCommit(t)

\* the reader threads of the workload: auto r = sp.read(); (void)*r;
AccRead(t) == t \notin Writers /\ Read(t)

NextAccum ==
    \E t \in Thr :
        \/ AccWrite(t)
        \/ WgLock(t)
        \/ WgOld(t)
        \/ AccSetValue(t)
        \/ AccCommit(t)
        \/ WgReaders(t)
        \/ WgCas(t)
        \/ WgUnlock(t)
        \/ AccRead(t)
        \/ RgInc(t)
        \/ RgLoad(t)
        \/ Release(t)
        \/ RgSwap(t)

SpecAccum == Init /\ [][NextAccum]_vars

\* ------------------------------------------------ one reader, rapid writes
\* the reader thread of the hazard scenario; every other thread may write
EReader == NThreads

\* auto r = sp.read() by the only reader, before any write has begun
ERead(t) ==
    /\ t = EReader
    /\ \A u \in Thr : iter[u] = 0
    /\ Read(t)

\* { auto w = sp.write(); w.set_value(v); } begun while the reader holds
\* its guard
EWrite(t) == Reading(EReader) /\ AccWrite(t)

\* one reader acquires a guard, then the writers commit one generation
\* after the other; the reader releases at any moment
NextScenarioE ==
    \E t \in Thr :
        \/ ERead(t)
        \/ RgInc(t)
        \/ RgLoad(t)
        \/ Release(t)
        \/ RgSwap(t)
        \/ EWrite(t)
        \/ WgLock(t)
        \/ WgOld(t)
        \/ \E v \in Val : SetValue(t, v)
        \/ AccCommit(t)
        \/ WgReaders(t)
        \/ WgCas(t)
        \/ WgUnlock(t)

SpecScenarioE == Init /\ [][NextScenarioE]_vars

\* ================================================================= claims

\* the threads whose WriteGuard owns the writer lock of block c
LockOwners(c) == {t \in Thr : wguard[t].ctrl = c /\ wguard[t].lock}

\* C1: at most one WriteGuard owns the writer lock of a ControlBlock at
\* any instant, whether the guards come from write() or try_write() of the
\* owning handle or from try_write() of a weak handle; while a guard owns
\* the lock, a thread inside write() cannot take its locking step (it
\* waits) and no try_write() has handed out a second guard.
C1_SingleWriter ==
    \A c \in Blocks :
        /\ Cardinality(LockOwners(c)) <= 1
        /\ \A t \in Thr :
              (pc[t] = "wg_lock" /\ wguard[t].ctrl = c /\ LockOwners(c) # {})
                  => ~ENABLED WgLock(t)
        /\ \A t \in Thr :
              (res[t] = "WriteGuard" /\ wguard[t].ctrl = c) => LockOwners(c) = {t}

\* C1 witness: a WriteGuard obtained through a weak handle owns the lock,
\* a write() on the owning handle is waiting for it and a try_write() on
\* the owning handle has just returned no guard
C1_Witness ==
    \E t, u, v \in Thr :
        /\ Writing(t) /\ wguard[t].lock /\ hnd[t] # OWN
        /\ pc[u] = "wg_lock" /\ wguard[u].ctrl = wguard[t].ctrl
        /\ res[v] = "try_write:none" /\ sp_ctrl = wguard[t].ctrl

\* C2: while the owning handle stays alive, no value is destroyed while a
\* live ReadGuard holds it as its snapshot.
C2_NoPrematureReclaim == \A t \in Thr : Reading(t) => stale[t] = "no"

\* C3: a value that a live ReadGuard holds is destroyed by the fallback of
\* commit_and_cleanup only in this way: a commit's compare_exchange finds
\* the retired slot occupied by another value (an earlier commit's), the
\* slot keeps that occupant, and the committing writer destroys the value
\* it has just replaced although the guard's reader is still counted.
C3_FallbackHazard ==
    [][\A t \in Thr :
          (stale[t] = "no" /\ stale'[t] = "fallback") =>
             \E u \in Thr \ {t} :
                LET c == wguard[u].ctrl IN
                /\ pc[u] = "wg_cas" /\ pc'[u] = "wg_unlock"
                /\ old_global[u] = rguard[t].snapshot
                /\ rguard[t].ctrl = c
                /\ cb[c].retired \notin {NULL, old_global[u]}
                /\ cb'[c].retired = cb[c].retired
                /\ cb[c].readers >= 1
                /\ cb[c].ptr # old_global[u]
                /\ Reading(t)']_vars

\* C3 witness: the owning handle is alive and a live ReadGuard holds a
\* value that the fallback destroyed
C3_Witness ==
    \E t \in Thr :
        /\ Reading(t) /\ stale[t] = "fallback"
        /\ sp_ctrl = rguard[t].ctrl /\ cb[sp_ctrl].strong = 1

\* what dereferencing the ReadGuard of thread t can yield
GuardView(t) == DerefSet(rguard[t].snapshot)

\* C4: from acquisition until release a live ReadGuard keeps the same
\* snapshot pointer and dereferences to the same content: no step of any
\* thread changes either while the guard stays alive.
C4_ReadStability ==
    [][\A t \in Thr :
          (Reading(t) /\ Reading(t)') =>
              /\ rguard'[t] = rguard[t]
              /\ GuardView(t)' = GuardView(t)]_vars

\* every writer of the accumulation workload has finished its KIter iterations
AllDone == \A t \in Writers : iter[t] = KIter /\ pc[t] = "idle"

\* C5: starting from 0, once the NWriters writers have each finished KIter
\* iterations of { write(); set_value(old() + 1); release }, with readers
\* running concurrently, a read yields exactly NWriters * KIter.
C5_Accumulation ==
    AllDone => DerefSet(cb[sp_ctrl].ptr) = {NWriters * KIter}

\* C5 witness: all writers have finished, the value is NWriters * KIter and
\* a reader that ran concurrently still holds a guard on an earlier value
C5_Witness ==
    /\ AllDone
    /\ mem[cb[sp_ctrl].ptr] = NWriters * KIter
    /\ \E r \in Thr : Reading(r) /\ rguard[r].snapshot # cb[sp_ctrl].ptr

\* the owning handle of block c has been destroyed (release_strong is over)
OwnerGone(c) == torn[c] /\ sp_ctrl = NULL

\* C6: while the owning handle is alive, an attached weak handle is not
\* expired and its try_read() passes its check of ptr; once the owning
\* handle has been destroyed, every attached weak handle is expired, so
\* that its try_read() returns no guard, whatever guards or staged writes
\* existed at the destruction.
C6_WeakExpiry ==
    \A w \in WeakH :
        LET c == wk_ctrl[w] IN
        c # NULL =>
            /\ (sp_ctrl = c /\ ~torn[c]) => ~expired(w)
            /\ OwnerGone(c) => expired(w)

\* no handle is left and no call is running
AllGone ==
    /\ sp_ctrl = NULL /\ sp2_ctrl = NULL
    /\ \A w \in WeakAll : wk_ctrl[w] = NULL
    /\ \A t \in Thr : pc[t] = "idle"

\* C7: with all guards released before their handle is destroyed, no
\* deleter ever runs on a value that is not allocated (no double free),
\* and once the owning handle, the weak handles and the guards are gone no
\* value is still allocated (no leak).
C7_NoDoubleFreeNoLeak ==
    /\ ~doubleFree
    /\ AllGone => \A a \in Addr : ~alloc[a]

\* C8: the ControlBlock is deleted at most once, only when strong_count
\* and weak_count are both zero, it is never accessed after its deletion,
\* it is deleted once no handle is left, and the managed value is gone
\* once the owning handle's release is over.
C8_Teardown ==
    \A c \in Blocks :
        /\ cbDeletes[c] <= 1
        /\ ~cbUAF
        /\ Freed(c) => (cb[c].strong = 0 /\ cb[c].weak = 0)
        /\ (torn[c] /\ AllGone) => Freed(c)

\* C9: every ReadGuard dereferences, at the moment its acquisition
\* completes, to the value that the last commit published (the initial
\* value before any commit), and every WriteGuard's old() is that value at
\* the moment the guard is returned.
C9_PublishVisibility ==
    \A t \in Thr :
        /\ res[t] = "ReadGuard" => GuardView(t) = {lastPub[rguard[t].ctrl]}
        /\ res[t] = "WriteGuard" =>
              DerefSet(wguard[t].old_ptr) = {lastPub[wguard[t].ctrl]}

\* C10: a read() or try_read() is never made to wait: the call can start
\* whenever the handle is not being destroyed, its fetch_add and its load
\* are always enabled, whoever holds the writer lock and however many
\* readers exist, and they are the only two steps between the call and
\* the guard; try_read() on the owning handle returns no guard exactly
\* when the handle has no ControlBlock.
C10_ReadsNeverBlock ==
    /\ [](\A t \in Thr :
            /\ (pc[t] = "idle" /\ ~Releasing(OWN)) => (ENABLED Read(t) /\ ENABLED TryRead(t))
            /\ pc[t] = "rg_inc" => ENABLED RgInc(t)
            /\ pc[t] = "rg_load" => ENABLED RgLoad(t)
            /\ res[t] = "try_read:none" => sp_ctrl = NULL
            /\ (pc[t] \in {"rg_inc", "rg_load"} /\ hnd[t] = OWN) => sp_ctrl # NULL)
    /\ [][\A t \in Thr :
            /\ (pc[t] = "rg_inc" /\ pc'[t] # "rg_inc") =>
                  /\ pc'[t] = "rg_load"
                  /\ cb'[rguard[t].ctrl].readers = cb[rguard[t].ctrl].readers + 1
            /\ (pc[t] = "rg_load" /\ pc'[t] # "rg_load") =>
                  /\ pc'[t] = "reading" /\ res'[t] = "ReadGuard"
                  /\ rguard'[t].snapshot = cb[rguard[t].ctrl].ptr]_vars

\* C10 witness: a read on the owning handle has just returned its guard
\* while another thread holds a WriteGuard with a staged value and a third
\* thread holds a ReadGuard
C10_Witness ==
    \E t, u, v \in Thr :
        /\ res[t] = "ReadGuard" /\ hnd[t] = OWN
        /\ Writing(u) /\ wguard[u].lock /\ wguard[u].local # NULL
        /\ Reading(v) /\ v # t

\* C11: try_write() on the owning handle never waits: the call can start
\* whenever the handle is not being destroyed and its locking attempt is
\* always enabled; the attempt leads to a WriteGuard that owns the lock
\* exactly when the mutex is free at the attempt; a call that returns no
\* guard happens only with the lock held by another guard or without a
\* ControlBlock, and leaves the ControlBlock (current, reader_count,
\* retired slot, mutex), the lock owners and the heap unchanged.
C11_TryWriteNeverWaits ==
    /\ [](\A t \in Thr :
            /\ (pc[t] = "idle" /\ ~Releasing(OWN)) => ENABLED TryWrite(t)
            /\ pc[t] = "wg_trylock" => ENABLED WgTryLock(t)
            /\ pc[t] = "wg_old" => ENABLED WgOld(t)
            /\ (res[t] = "WriteGuard" /\ hnd[t] = OWN) =>
                  (sp_ctrl = wguard[t].ctrl /\ LockOwners(sp_ctrl) = {t}))
    /\ [][\A t \in Thr :
            /\ (pc[t] = "wg_trylock" /\ hnd[t] = OWN /\ pc'[t] # "wg_trylock") =>
                  LET c == wguard[t].ctrl IN
                  IF cb[c].write_mtx
                  THEN res'[t] = "try_write:none"
                  ELSE /\ pc'[t] = "wg_old"
                       /\ LockOwners(c)' = {t}
            /\ (pc[t] = "wg_old" /\ hnd[t] = OWN /\ pc'[t] # "wg_old") =>
                  res'[t] = "WriteGuard"
            /\ res'[t] = "try_write:none" =>
                  /\ sp_ctrl = NULL \/ (LockOwners(sp_ctrl) \ {t}) # {}
                  /\ cb' = cb /\ alloc' = alloc /\ mem' = mem
                  /\ \A c \in Blocks : LockOwners(c)' = LockOwners(c)
                  /\ pc'[t] = "idle" /\ wguard'[t] = NoWriteGuard]_vars

\* C11 witness: try_write() on the live owning handle has just returned no
\* guard because another thread holds a WriteGuard with a staged value,
\* while a third thread holds a ReadGuard
C11_Witness ==
    \E t, u, v \in Thr :
        /\ res[t] = "try_write:none" /\ sp_ctrl # NULL
        /\ Writing(u) /\ wguard[u].lock /\ wguard[u].local # NULL
        /\ Reading(v)

\* the step changes nothing but what it returns
OnlyReturns == UNCHANGED <<cbVars, hVars, heapVars, guardVars, thrVars, histVars>>

\* C12: on an owning handle without a ControlBlock the four borrow calls
\* can always be made; read() and write() end with a logic error,
\* try_read() and try_write() return no guard and raise no error, and
\* none of them changes any state; read() and write() raise the error in
\* no other situation.
C12_NullHandle ==
    /\ [](\A t \in Thr :
            (sp_ctrl = NULL /\ pc[t] = "idle") =>
                /\ ENABLED Read(t) /\ ENABLED Write(t)
                /\ ENABLED TryRead(t) /\ ENABLED TryWrite(t))
    /\ [][\A t \in Thr :
            /\ sp_ctrl = NULL =>
                  /\ Read(t) => (res'[t] = "read:error" /\ OnlyReturns)
                  /\ Write(t) => (res'[t] = "write:error" /\ OnlyReturns)
                  /\ TryRead(t) => (res'[t] = "try_read:none" /\ OnlyReturns)
                  /\ TryWrite(t) => (res'[t] = "try_write:none" /\ OnlyReturns)
            /\ res'[t] \in {"read:error", "write:error"} =>
                  (sp_ctrl = NULL /\ OnlyReturns)]_vars

\* C12 witness: the owning handle has been emptied while a weak handle is
\* still attached to its former ControlBlock, and a write() on the empty
\* handle has just failed with the logic error
C12_Witness ==
    \E t \in Thr :
        /\ res[t] = "write:error"
        /\ sp_ctrl = NULL
        /\ \E w \in WeakH : wk_ctrl[w] # NULL

\* C13: every WriteGuard obtained from the owning handle has, from its
\* acquisition until its own commit, an old snapshot that is present, is
\* the current value of the ControlBlock, has not been destroyed and
\* reads as the value published last, so old() never fails; and while
\* strong_count is 1 the current value of a ControlBlock is never absent
\* nor destroyed.
C13_OldAlwaysValid ==
    /\ \A t \in Thr :
          (Writing(t) /\ hnd[t] = OWN) =>
              LET c == wguard[t].ctrl IN
              /\ wguard[t].old_ptr # NULL
              /\ wguard[t].old_ptr = cb[c].ptr
              /\ alloc[wguard[t].old_ptr]
              /\ DerefSet(wguard[t].old_ptr) = {lastPub[c]}
    /\ \A c \in Blocks :
          (~Freed(c) /\ cb[c].strong = 1) =>
              (cb[c].ptr # NULL /\ alloc[cb[c].ptr])

\* C13 witness: a WriteGuard of the owning handle is alive after an
\* earlier commit published 1 and retired the value it replaced
C13_Witness ==
    \E t \in Thr :
        /\ Writing(t) /\ hnd[t] = OWN
        /\ lastPub[wguard[t].ctrl] = 1
        /\ cb[wguard[t].ctrl].retired # NULL
        /\ wguard[t].old_ptr = cb[wguard[t].ctrl].ptr

\* C14: the release of a WriteGuard that staged nothing is two steps of its
\* thread: the first goes straight to the unlock and changes no field of
\* the ControlBlock, no heap cell, no published value and destroys nothing;
\* the second changes only the mutex, which becomes free. While a guard of
\* the owning handle holds the lock, no step other than its own commit of a
\* staged value changes current, so current at such a release is what it
\* was when the guard was acquired.
C14_NoStageNoPublish ==
    [][\A t \in Thr :
          LET c == wguard[t].ctrl IN
          /\ (Writing(t) /\ wguard[t].local = NULL /\ pc'[t] # pc[t]) =>
                /\ pc'[t] = "wg_unlock"
                /\ cb' = cb /\ cbDeletes' = cbDeletes
                /\ alloc' = alloc /\ mem' = mem
                /\ lastPub' = lastPub /\ stale' = stale
                /\ hnd[t] = OWN => cb[c].ptr = wguard[t].old_ptr
          /\ (pc[t] = "wg_unlock" /\ pc'[t] # pc[t]) =>
                /\ pc'[t] = "idle" /\ wguard'[t] = NoWriteGuard
                /\ cb' = [cb EXCEPT ![c].write_mtx = FALSE]
                /\ cbDeletes' = cbDeletes
                /\ alloc' = alloc /\ mem' = mem
                /\ lastPub' = lastPub /\ stale' = stale
          /\ (pc[t] \in {"writing", "wg_unlock"} /\ hnd[t] = OWN
                /\ ~(Writing(t) /\ wguard[t].local # NULL /\ pc'[t] # pc[t])) =>
                cb'[c].ptr = cb[c].ptr]_vars

\* C14 witness: a WriteGuard of the owning handle that staged nothing is
\* being released (it still owns the lock and current is its old
\* snapshot) while a ReadGuard is alive and the retired slot is occupied
C14_Witness ==
    \E t, u \in Thr :
        /\ pc[t] = "wg_unlock" /\ hnd[t] = OWN /\ wguard[t].lock
        /\ cb[wguard[t].ctrl].ptr = wguard[t].old_ptr
        /\ cb[wguard[t].ctrl].retired # NULL
        /\ Reading(u)

\* C15: a WriteGuard has one private buffer: the first set_value allocates
\* it, every later one overwrites it in place, and each leaves in it the
\* value just passed; no set_value changes the ControlBlock, the buffer is
\* never current nor retired while the guard is alive, and nobody but the
\* guard's own set_value changes its content; the guard's release
\* publishes the buffer, i.e. the value staged last, and leaves nothing
\* staged, so the guard publishes exactly once; current never becomes
\* anything but the buffer of a guard at its release, and while a value is
\* staged current does not change at all, except that the destruction of
\* the owning handle empties it under a guard of a weak handle. All of it
\* is stated for guards on a ControlBlock that has not been deleted.
C15_StagingPrivate ==
    /\ [](\A t \in Thr :
            LET c == wguard[t].ctrl
                l == wguard[t].local IN
            (l # NULL /\ ~Freed(c)) =>
                /\ Writing(t) /\ alloc[l]
                /\ cb[c].ptr # l /\ cb[c].retired # l
                /\ \A u \in Thr \ {t} : wguard[u].local # l)
    /\ [][\A t \in Thr :
            LET c == wguard[t].ctrl
                l == wguard[t].local IN
            /\ \A v \in Val :
                  (SetValue(t, v) /\ ~Freed(c)) =>
                     /\ cb' = cb /\ lastPub' = lastPub
                     /\ wguard'[t].local # NULL
                     /\ mem'[wguard'[t].local] = v
                     /\ l # NULL => (wguard'[t].local = l /\ alloc' = alloc)
                     /\ l = NULL => (~alloc[wguard'[t].local] /\ alloc'[wguard'[t].local])
            /\ (l # NULL /\ ~Freed(c)) =>
                  /\ alloc'[l]
                  /\ mem'[l] # mem[l] => SetValue(t, mem'[l])
                  /\ (pc'[t] = pc[t] /\ cb'[c].ptr # cb[c].ptr) =>
                        (cb'[c].ptr = NULL /\ hnd[t] # OWN /\ pc[HomeOf(OWN)] = "rs_xchg")
                  /\ pc'[t] # pc[t] =>
                        /\ cb'[c].ptr = l
                        /\ lastPub'[c] = mem[l]
                        /\ wguard'[t].local = NULL
                        /\ pc'[t] \in {"wg_readers", "wg_unlock"}
            /\ \A b \in Blocks :
                  (~Freed(b) /\ cb'[b].ptr \notin {NULL, cb[b].ptr}) =>
                     \E u \in Thr :
                        /\ Writing(u) /\ wguard[u].ctrl = b
                        /\ wguard[u].local = cb'[b].ptr
                        /\ pc'[u] # pc[u]]_vars

\* C15 witness: a WriteGuard holds a staged value that differs from the
\* published one, and a ReadGuard acquired just now holds the current
\* value, not the staged buffer
C15_Witness ==
    \E t, u \in Thr :
        /\ Writing(t) /\ wguard[t].local # NULL
        /\ mem[wguard[t].local] # lastPub[wguard[t].ctrl]
        /\ res[u] = "ReadGuard" /\ rguard[u].ctrl = wguard[t].ctrl
        /\ rguard[u].snapshot = cb[rguard[u].ctrl].ptr
        /\ rguard[u].snapshot # wguard[t].local

\* the ControlBlock b holds its managed value: one strong owner, a current
\* value that is allocated, the block not deleted
Owned(b) == ~Freed(b) /\ cb[b].strong = 1 /\ cb[b].ptr # NULL /\ alloc[cb[b].ptr]

\* C16: a move construction from a non-empty owning handle leaves the
\* source without ControlBlock (valid() false, read() fails) and the
\* destination with the source's ControlBlock; a move assignment does the
\* same after the destination has released the strong reference it held
\* (its former block has strong_count 0); neither transfer changes any
\* field of any ControlBlock (strong_count and weak_count included), any
\* weak handle or any heap cell, and the transferred block still holds its
\* value.
C16_MoveTransfers ==
    /\ [](\A t \in Thr :
            /\ res[t] = "move_ctor" =>
                  /\ sp_ctrl = NULL /\ ~valid
                  /\ ENABLED Read(t)
                  /\ sp2_ctrl # NULL /\ Owned(sp2_ctrl)
            /\ res[t] = "move_assign" =>
                  /\ sp2_ctrl = NULL
                  /\ sp_ctrl # NULL /\ valid /\ Owned(sp_ctrl)
                  /\ \A b \in Blocks \ {sp_ctrl} : cb[b].strong = 0)
    /\ [][\A t \in Thr :
            /\ res'[t] = "move_ctor" =>
                  /\ sp_ctrl # NULL
                  /\ sp2_ctrl' = sp_ctrl /\ sp_ctrl' = NULL
                  /\ cb' = cb /\ cbDeletes' = cbDeletes /\ wk_ctrl' = wk_ctrl
                  /\ alloc' = alloc /\ mem' = mem
            /\ res'[t] = "move_assign" =>
                  /\ sp2_ctrl # NULL
                  /\ sp_ctrl' = sp2_ctrl /\ sp2_ctrl' = NULL
                  /\ cb' = cb /\ cbDeletes' = cbDeletes /\ wk_ctrl' = wk_ctrl
                  /\ alloc' = alloc /\ mem' = mem
            /\ (sp_ctrl = NULL /\ Read(t)) => res'[t] = "read:error"]_vars

\* C16 witness: a move assignment has just given the owning handle the
\* ControlBlock of the other handle, after the handle released its former
\* block, which a weak handle still observes
C16_Witness ==
    \E t \in Thr :
        /\ res[t] = "move_assign"
        /\ sp_ctrl = 2
        /\ torn[1] /\ ~Freed(1)
        /\ \E w \in WeakH : wk_ctrl[w] = 1

\* the weak handles that reference block c and have not yet performed the
\* decrement of their release
CountedWeak(c) ==
    {w \in WeakAll : wk_ctrl[w] = c /\ ~\E t \in Thr : pc[t] = "rw_strong" /\ hnd[t] = w}

\* C17: weak_count of every ControlBlock equals the number of weak handles
\* that reference it and have not begun their release, and is never
\* negative; a deleted ControlBlock has weak_count 0 and no weak handle
\* that has not begun its release references it; construction from the
\* owning handle and copy add one to weak_count, a move changes no count,
\* a release removes one.
C17_WeakCount ==
    /\ [](\A c \in Blocks :
            /\ cb[c].weak = Cardinality(CountedWeak(c))
            /\ cb[c].weak >= 0
            /\ Freed(c) => (cb[c].weak = 0 /\ CountedWeak(c) = {}))
    /\ [][\A t \in Thr :
            /\ res'[t] = "weak_copy" =>
                  \E w, o \in WeakAll :
                     /\ w # o /\ wk_ctrl'[w] = wk_ctrl[o] /\ wk_ctrl'[o] = wk_ctrl[o]
                     /\ cb' = [cb EXCEPT ![wk_ctrl[o]].weak = @ + 1]
            /\ res'[t] = "weak_move" =>
                  /\ cb' = cb
                  /\ \E w, o \in WeakAll :
                        w # o /\ wk_ctrl'[w] = wk_ctrl[o] /\ wk_ctrl'[o] = NULL
            /\ \A w \in WeakAll :
                  (wk_ctrl[w] = NULL /\ wk_ctrl'[w] # NULL /\ NoReturn
                     /\ wk_ctrl'[w] = sp_ctrl) =>
                        cb' = [cb EXCEPT ![sp_ctrl].weak = @ + 1]
            /\ \A w \in WeakAll :
                  (pc[t] = "idle" /\ hnd'[t] = w /\ wk_ctrl[w] # NULL
                     /\ (pc'[t] = "rw_strong" \/ (wk_ctrl'[w] = NULL /\ NoReturn))) =>
                        cb' = [cb EXCEPT ![wk_ctrl[w]].weak = @ - 1]]_vars

\* the step destroys exactly the value p
Destroys(p) ==
    /\ ~alloc'[p]
    /\ \A a \in Addr \ {p} : alloc'[a] = alloc[a] /\ mem'[a] = mem[a]

\* C18: the release of a WriteGuard with a staged value n by thread t is
\* (1) one step that makes n current, hands the previous value p to the
\* writer and destroys nothing; with p present, (2) one step that reads
\* reader_count: at 0 it destroys p and only p, otherwise it destroys
\* nothing; then (3) one step on the retired slot: an empty slot receives
\* p and nothing is destroyed, an occupied slot keeps its occupant and p,
\* only p, is destroyed. In every state the retired slot of a live
\* ControlBlock does not hold the current value.
C18_CommitRule ==
    /\ [](\A c \in Blocks :
            (~Freed(c) /\ cb[c].retired # NULL) => cb[c].retired # cb[c].ptr)
    /\ [][\A t \in Thr :
            LET c == wguard[t].ctrl
                n == wguard[t].local
                p == old_global[t] IN
            /\ (Writing(t) /\ n # NULL /\ pc'[t] # pc[t]) =>
                  /\ cb' = [cb EXCEPT ![c].ptr = n]
                  /\ old_global'[t] = cb[c].ptr
                  /\ alloc' = alloc /\ mem' = mem
                  /\ pc'[t] = IF cb[c].ptr = NULL THEN "wg_unlock" ELSE "wg_readers"
            /\ (pc[t] = "wg_readers" /\ pc'[t] # pc[t]) =>
                  /\ p # NULL /\ cb' = cb
                  /\ IF cb[c].readers = 0
                     THEN Destroys(p) /\ pc'[t] = "wg_unlock"
                     ELSE alloc' = alloc /\ mem' = mem /\ pc'[t] = "wg_cas"
            /\ (pc[t] = "wg_cas" /\ pc'[t] # pc[t]) =>
                  /\ pc'[t] = "wg_unlock"
                  /\ IF cb[c].retired = NULL
                     THEN /\ cb' = [cb EXCEPT ![c].retired = p]
                          /\ alloc' = alloc /\ mem' = mem
                     ELSE /\ cb' = cb
                          /\ Destroys(p)]_vars

\* C18 witness: a WriteGuard of the owning handle has published, readers
\* were counted, the retired slot holds another value and the value the
\* guard replaced has been destroyed: the commit took the occupied-slot
\* branch
C18_Witness ==
    \E t \in Thr :
        LET c == wguard[t].ctrl IN
        /\ pc[t] = "wg_unlock" /\ hnd[t] = OWN /\ wguard[t].lock
        /\ cb[c].ptr # wguard[t].old_ptr
        /\ ~alloc[wguard[t].old_ptr]
        /\ cb[c].retired \notin {NULL, wguard[t].old_ptr}
        /\ cb[c].readers >= 1

\* C19: a value is never destroyed by the immediate-destroy path of a
\* commit while a live ReadGuard holds it; at the step in which a
\* committing writer reads reader_count == 0 and destroys the replaced
\* value p, no ReadGuard on that ControlBlock is alive or between its
\* increment and its load, p is no longer current, so every reader that
\* has not loaded yet will load another value, and p is not in the retired
\* slot. Stated for ControlBlocks that have not been deleted.
C19_ImmediateDestroyHandshake ==
    /\ [](\A t \in Thr :
            (Reading(t) /\ ~Freed(rguard[t].ctrl)) => stale[t] # "immediate")
    /\ [][\A t \in Thr :
            LET c == wguard[t].ctrl
                p == old_global[t] IN
            (pc[t] = "wg_readers" /\ ~Freed(c) /\ cb[c].readers = 0 /\ pc'[t] # pc[t]) =>
               /\ ~alloc'[p]
               /\ cb[c].ptr # p /\ cb[c].retired # p
               /\ \A u \in Thr :
                     rguard[u].ctrl = c =>
                        /\ pc[u] \notin {"rg_load", "reading"}
                        /\ Reading(u)' => rguard'[u].snapshot # p]_vars

\* C19 witness: the writer has published and is about to read
\* reader_count == 0; the last reader of the replaced value has done its
\* decrement but not yet its swap of the retired slot, and another reader
\* has entered its acquisition but not yet incremented
C19_Witness ==
    \E t, u, v \in Thr :
        LET c == wguard[t].ctrl IN
        /\ pc[t] = "wg_readers" /\ cb[c].readers = 0
        /\ pc[v] = "rg_swap" /\ rguard[v].snapshot = old_global[t]
        /\ pc[u] = "rg_inc" /\ rguard[u].ctrl = c

\* C20: with a single WriteGuard commit in the execution, the value that a
\* releasing reader swaps out of the retired slot and destroys is not the
\* snapshot of a ReadGuard that is alive at that moment.
C20_ReaderReleaseSafe == \A t \in Thr : stale[t] # "reader"

\* C21: with one ReadGuard alive on generation 1 and no other reader, the
\* first commit does not destroy generation 1 but places it in the
\* retired slot, where it stays allocated while the guard is alive; a
\* later commit before the release finds the slot taken, leaves it alone
\* and destroys the generation it replaced, which no guard holds; the
\* step that ends the reader's release destroys generation 1, and nothing
\* else does.
C21_ScenarioE ==
    /\ [](LET r == EReader
              s == rguard[r].snapshot
              c == rguard[r].ctrl IN
          Reading(r) =>
            /\ s # NULL /\ alloc[s] /\ stale[r] = "no"
            /\ (cb[c].ptr # s /\ \A u \in Thr : old_global[u] # s) => cb[c].retired = s)
    /\ [][LET r == EReader
              s == rguard[r].snapshot
              c == rguard[r].ctrl IN
          /\ \A u \in Thr :
               (Reading(r) /\ pc[u] = "wg_readers" /\ pc'[u] # pc[u]) =>
                  /\ pc'[u] = "wg_cas"
                  /\ alloc' = alloc
          /\ \A u \in Thr :
               (Reading(r) /\ pc[u] = "wg_cas" /\ pc'[u] # pc[u]) =>
                  IF old_global[u] = s
                  THEN /\ cb[c].retired = NULL /\ cb'[c].retired = s
                       /\ alloc' = alloc
                  ELSE /\ cb[c].retired = s /\ cb'[c].retired = s
                       /\ alloc[old_global[u]] /\ ~alloc'[old_global[u]]
                       /\ alloc'[s]
                       /\ \A x \in Thr : Reading(x) => rguard[x].snapshot # old_global[u]
          /\ (pc[r] = "reading" /\ pc'[r] = "rg_swap") => alloc' = alloc
          /\ (pc[r] = "rg_swap" /\ cb[c].retired = s) =>
                /\ alloc[s]
                /\ alloc'[s] # alloc[s] <=> pc'[r] = "idle"]_vars

\* C21 witness: the reader still holds generation 1, which sits in the
\* retired slot and is allocated, after at least two writes have committed
\* and every writer has finished
C21_Witness ==
    LET r == EReader IN
    /\ Reading(r) /\ stale[r] = "no"
    /\ cb[rguard[r].ctrl].retired = rguard[r].snapshot
    /\ alloc[rguard[r].snapshot]
    /\ \A t \in Writers : pc[t] = "idle"
    /\ \E t, u \in Writers : (t # u /\ iter[t] >= 1 /\ iter[u] >= 1) \/ iter[t] >= 2
    /\ Cardinality({a \in Addr : alloc[a]}) = 2

\* no guard is alive and no call is running
Quiescent == \A t \in Thr : pc[t] = "idle"

\* C22: a value placed in the retired slot is released by the reader
\* release that brings reader_count to zero: whenever no ReadGuard is
\* alive and no read release or write commit is in progress, the retired
\* slot is empty.
C22_RetiredDrains ==
    Quiescent => \A c \in Blocks : ~Freed(c) => cb[c].retired = NULL

\* the ReadGuards of block c that have performed their increment and not
\* yet their decrement
Counted(c) == {t \in Thr : rguard[t].ctrl = c /\ pc[t] \in {"rg_load", "reading"}}

\* C23: on every ControlBlock that has not been deleted, reader_count is
\* non-negative and equals the number of ReadGuards that have incremented
\* and not yet decremented it (so it is 0 when no ReadGuard is alive);
\* moving a ReadGuard leaves reader_count unchanged, empties the source
\* and gives the borrow to the target; reader_count goes down only by one,
\* in the release step of a live guard, which is not alive afterwards.
C23_ReaderCount ==
    /\ [](\A c \in Blocks :
            ~Freed(c) =>
               /\ cb[c].readers >= 0
               /\ cb[c].readers = Cardinality(Counted(c)))
    /\ [][/\ \A t, u \in Thr :
               RgMove(t, u) =>
                  /\ cb' = cb
                  /\ rguard'[t] = NoReadGuard /\ ~Reading(t)'
                  /\ rguard'[u] = rguard[t] /\ Reading(u)'
          /\ \A c \in Blocks :
               cb'[c].readers < cb[c].readers =>
                  /\ cb'[c].readers = cb[c].readers - 1
                  /\ \E t \in Thr :
                        /\ Reading(t) /\ rguard[t].ctrl = c
                        /\ ~Reading(t)' /\ t \notin Counted(c)']_vars

\* C23 witness: a guard that was just moved into another guard object is
\* alive next to a second guard on the same block, and the source of the
\* move is empty
C23_Witness ==
    \E t, u, x \in Thr :
        /\ res[u] = "guard_move" /\ Reading(u) /\ rguard[t] = NoReadGuard
        /\ x # u /\ Reading(x) /\ rguard[x].ctrl = rguard[u].ctrl
        /\ cb[rguard[u].ctrl].readers = 2

\* C24: a ReadGuard returned by try_read() of a weak handle holds a
\* present snapshot of a value that has not been destroyed, and a
\* WriteGuard returned by try_write() of a weak handle has a present old
\* value, also when the owning handle is destroyed while the call runs.
C24_WeakAcquireAtomic ==
    \A t \in Thr :
        hnd[t] # OWN =>
            /\ res[t] = "ReadGuard" =>
                  (rguard[t].snapshot # NULL /\ alloc[rguard[t].snapshot])
            /\ res[t] = "WriteGuard" =>
                  (wguard[t].old_ptr # NULL /\ alloc[wguard[t].old_ptr])

\* C25: the step that ends reset(v) attaches the owning handle to a
\* ControlBlock that did not exist before, with strong_count 1,
\* weak_count 0, reader_count 0, an empty retired slot and current == v,
\* leaves every weak handle where it was, and finds the value of the
\* block it left destroyed; afterwards a read() on the owning handle
\* returns the value published last on the new block (v until a commit),
\* every weak handle attached to a block the owning handle has left
\* reports expired(), and no guard on such a block has the value of the
\* new block as its snapshot; reset() without a value leaves the handle
\* empty (valid() false).
C25_Reset ==
    /\ [](\A w \in WeakAll :
            LET c == wk_ctrl[w] IN
            (c # NULL /\ torn[c] /\ ~Freed(c) /\ pc[HomeOf(OWN)] = "idle") =>
               (c # sp_ctrl /\ expired(w)))
    /\ [](\A t \in Thr :
            /\ (res[t] = "ReadGuard" /\ hnd[t] = OWN) =>
                  (rguard[t].ctrl = sp_ctrl /\ GuardView(t) = {lastPub[sp_ctrl]})
            /\ (Reading(t) /\ stale[t] = "no" /\ torn[rguard[t].ctrl]
                   /\ sp_ctrl # NULL /\ ~torn[sp_ctrl]) =>
                  rguard[t].snapshot # cb[sp_ctrl].ptr)
    /\ [][\A t \in Thr :
            /\ (pc[t] = "rst_new" /\ pc'[t] = "idle") =>
                  /\ sp_ctrl' # NULL /\ Unused(sp_ctrl')
                  /\ cb'[sp_ctrl'] = NewControlBlock(reset_p)
                  /\ alloc'[reset_p] /\ valid'
                  /\ wk_ctrl' = wk_ctrl /\ \A w \in WeakAll : wk_ctrl[w] # sp_ctrl'
                  /\ \A c \in Blocks : (torn[c] /\ ~Freed(c)) => cb[c].ptr = NULL
            /\ (pc[t] = "rs_weak" /\ pc'[t] = "idle") =>
                  (sp_ctrl' = NULL /\ ~valid')]_vars

====
